---- MODULE Spec2Model ----
(***************************************************************************)
(* Model of nova/virt/libvirt/image.py: driver selection, the image       *)
(* drivers, the LVM / file images and the snapshots.                       *)
(*                                                                         *)
(* Python strings are modelled as sequences of atoms.  The atoms "/", "-", *)
(* " " and "\n" are the characters the code looks at; every other atom is  *)
(* a chunk of characters that contains none of them.                       *)
(***************************************************************************)
EXTENDS Integers, Sequences, FiniteSets, TLC

(* ---------------------------------------------------------------------- *)
(* Bounds of the model                                                     *)
(* ---------------------------------------------------------------------- *)
MaxDisks == 2
\* The most snapshot handles the hypervisor hands out for one object.
MaxHandles == 2

(* ---------------------------------------------------------------------- *)
(* Python values                                                           *)
(* ---------------------------------------------------------------------- *)
\* Python's None, and an argument left out of a call.
None == <<"<None>">>
Omitted == <<"<omitted>">>

\* Truth value of an optional string: None and '' are false.
Truthy(x) == x # None /\ x # <<>>

\* An argument with default None: the value the callee sees.
Default(x) == IF x = Omitted THEN None ELSE x

\* str.startswith('/') and str.endswith('/')
StartsWithSlash(s) == Len(s) > 0 /\ s[1] = "/"
EndsWithSlash(s) == Len(s) > 0 /\ s[Len(s)] = "/"

\* One step of posixpath.join: joining component b to the path so far.
JoinStep(path, b) ==
    IF StartsWithSlash(b) THEN b
    ELSE IF path = <<>> \/ EndsWithSlash(path) THEN path \o b
    ELSE path \o <<"/">> \o b

\* os.path.join(a, b, c)
PathJoin(a, b, c) == JoinStep(JoinStep(a, b), c)

\* os.path.basename(p): what follows the last "/".
RECURSIVE Basename(_)
Basename(p) ==
    IF p = <<>> THEN <<>>
    ELSE IF p[Len(p)] = "/" THEN <<>>
    ELSE Basename(SubSeq(p, 1, Len(p) - 1)) \o <<p[Len(p)]>>

(* ---------------------------------------------------------------------- *)
(* select_driver                                                           *)
(* ---------------------------------------------------------------------- *)
ImagesTypes == {"raw", "qcow", "lvm", "legacy", "nbd", ""}
VolumeGroups == {<<"vg0">>, <<"nova">>}
InstancesPaths == {<<"/", "var", "/", "instances">>}

FlagsSet == [local_images_type : ImagesTypes,
             use_cow_images : BOOLEAN,
             lvm_volume_group : VolumeGroups,
             instances_path : InstancesPaths]

\* Variant: the legacy branch without the use_cow_images test.
LegacyDriver_raw(use_cow_images) == "RawImageDriver"

\* The legacy branch of select_driver.
LegacyDriver(use_cow_images) ==
    IF use_cow_images THEN "QcowImageDriver" ELSE "RawImageDriver"

\* select_driver(): the driver class, or the RuntimeError it raises.
select_driver(F) ==
    IF F.local_images_type = "raw"
      THEN [ok |-> TRUE, driver |-> "RawImageDriver", err |-> "", names |-> ""]
    ELSE IF F.local_images_type = "qcow"
      THEN [ok |-> TRUE, driver |-> "QcowImageDriver", err |-> "", names |-> ""]
    ELSE IF F.local_images_type = "lvm"
      THEN [ok |-> TRUE, driver |-> "LvmImageDriver", err |-> "", names |-> ""]
    ELSE IF F.local_images_type = "legacy"
      THEN [ok |-> TRUE, driver |-> LegacyDriver(F.use_cow_images),
            err |-> "", names |-> ""]
    ELSE [ok |-> FALSE, driver |-> "", err |-> "RuntimeError: No driver found for",
          names |-> F.local_images_type]

(* ---------------------------------------------------------------------- *)
(* Image objects                                                           *)
(* ---------------------------------------------------------------------- *)
NoImage == [kind |-> "", path |-> <<>>, vg |-> <<>>, lv |-> <<>>]

\* LvmImage.__init__(vg, lv)
LvmImage(vg, lv) ==
    [kind |-> "LvmImage", path |-> PathJoin(<<"/", "dev">>, vg, lv),
     vg |-> vg, lv |-> lv]

\* RawImage.__init__(image_path) and QcowImage.__init__(image_path)
RawImage(image_path) ==
    [kind |-> "RawImage", path |-> image_path, vg |-> <<>>, lv |-> <<>>]
QcowImage(image_path) ==
    [kind |-> "QcowImage", path |-> image_path, vg |-> <<>>, lv |-> <<>>]

\* Image.path()
path(image) == image.path

(* ---------------------------------------------------------------------- *)
(* LvmImageDriver                                                          *)
(* ---------------------------------------------------------------------- *)
\* LvmImageDriver._lv_name
_lv_name(instance_name, image_name, suffix) ==
    LET a == IF Truthy(image_name) THEN instance_name \o <<"-">> \o image_name
             ELSE instance_name
    IN  IF Truthy(suffix) THEN a \o <<"-">> \o suffix ELSE a

\* LvmImageDriver._image_path
Lvm_image_path(vg, lv) == PathJoin(<<"/", "dev">>, vg, lv)

\* LvmImageDriver.create_image(instance_name, image_name=None, suffix=None)
Lvm_create_image(F, instance_name, image_name, suffix) ==
    [ok |-> TRUE, err |-> "",
     image |-> LvmImage(F.lvm_volume_group,
                        _lv_name(instance_name, Default(image_name),
                                 Default(suffix)))]

\* LvmImageDriver.image_info(instance_name, image_name=None, suffix=None)
Lvm_image_info(F, instance_name, image_name, suffix) ==
    [ok |-> TRUE, err |-> "",
     device_type |-> "block", source_type |-> "dev", driver_type |-> "raw",
     disk |-> Lvm_image_path(F.lvm_volume_group,
                             _lv_name(instance_name, Default(image_name),
                                      Default(suffix)))]

\* LvmImageDriver._list_disks: the 'dev' attribute of every disk source.
Lvm_list_disks(domain) == [i \in 1..Len(domain) |-> domain[i].dev]

\* LvmImageDriver.list_images: the loop over the disks, first to last.
RECURSIVE Lvm_list_loop(_, _)
Lvm_list_loop(F, disks) ==
    IF disks = <<>> THEN <<>>
    ELSE LET lv_path == Head(disks)
             rest == Lvm_list_loop(F, Tail(disks))
         IN  IF lv_path # None
               THEN <<Lvm_create_image(F, Basename(lv_path), Omitted,
                                       Omitted).image>> \o rest
               ELSE rest

Lvm_list_images(F, domain) == Lvm_list_loop(F, Lvm_list_disks(domain))

(* ---------------------------------------------------------------------- *)
(* _FileImageDriver, RawImageDriver, QcowImageDriver                       *)
(* ---------------------------------------------------------------------- *)
\* _FileImageDriver._image_path: os.path.join raises on a None component.
File_image_path(F, instance_name, image_name, suffix) ==
    IF image_name = None
      THEN [ok |-> FALSE, err |-> "AttributeError", path |-> <<>>]
      ELSE LET p == PathJoin(F.instances_path, instance_name, image_name)
           IN  [ok |-> TRUE, err |-> "",
                path |-> IF Truthy(suffix) THEN p \o suffix ELSE p]

\* _FileImageDriver._list_disks: the 'file' attribute of every disk source.
File_list_disks(domain) == [i \in 1..Len(domain) |-> domain[i].file]

\* create_image(instance_name, image_name, suffix=None) of the file drivers:
\* image_name has no default, a call without it is a TypeError.
File_create_image(kind, F, instance_name, image_name, suffix) ==
    IF image_name = Omitted
      THEN [ok |-> FALSE, err |-> "TypeError", image |-> NoImage]
      ELSE LET r == File_image_path(F, instance_name, image_name,
                                    Default(suffix))
           IN  IF r.ok
                 THEN [ok |-> TRUE, err |-> "",
                       image |-> IF kind = "RawImage" THEN RawImage(r.path)
                                 ELSE QcowImage(r.path)]
                 ELSE [ok |-> FALSE, err |-> r.err, image |-> NoImage]

Raw_create_image(F, instance_name, image_name, suffix) ==
    File_create_image("RawImage", F, instance_name, image_name, suffix)
Qcow_create_image(F, instance_name, image_name, suffix) ==
    File_create_image("QcowImage", F, instance_name, image_name, suffix)

\* image_info(instance_name, image_name=None, suffix=None) of the file drivers
File_image_info(driver_type, F, instance_name, image_name, suffix) ==
    LET r == File_image_path(F, instance_name, Default(image_name),
                             Default(suffix))
    IN  IF r.ok
          THEN [ok |-> TRUE, err |-> "", device_type |-> "file",
                source_type |-> "file", driver_type |-> driver_type,
                disk |-> r.path]
          ELSE [ok |-> FALSE, err |-> r.err, device_type |-> "",
                source_type |-> "", driver_type |-> "", disk |-> <<>>]

Raw_image_info(F, instance_name, image_name, suffix) ==
    File_image_info("raw", F, instance_name, image_name, suffix)
Qcow_image_info(F, instance_name, image_name, suffix) ==
    File_image_info("qcow2", F, instance_name, image_name, suffix)

\* RawImageDriver.list_images / QcowImageDriver.list_images
Raw_list_images(domain) ==
    [i \in 1..Len(domain) |-> RawImage(File_list_disks(domain)[i])]
Qcow_list_images(domain) ==
    [i \in 1..Len(domain) |-> QcowImage(File_list_disks(domain)[i])]

\* Dispatch on the driver class.
Drivers == {"RawImageDriver", "QcowImageDriver", "LvmImageDriver"}

create_image(driver, F, instance_name, image_name, suffix) ==
    CASE driver = "LvmImageDriver" ->
           Lvm_create_image(F, instance_name, image_name, suffix)
      [] driver = "RawImageDriver" ->
           Raw_create_image(F, instance_name, image_name, suffix)
      [] driver = "QcowImageDriver" ->
           Qcow_create_image(F, instance_name, image_name, suffix)

image_info(driver, F, instance_name, image_name, suffix) ==
    CASE driver = "LvmImageDriver" ->
           Lvm_image_info(F, instance_name, image_name, suffix)
      [] driver = "RawImageDriver" ->
           Raw_image_info(F, instance_name, image_name, suffix)
      [] driver = "QcowImageDriver" ->
           Qcow_image_info(F, instance_name, image_name, suffix)

list_images(driver, F, domain) ==
    CASE driver = "LvmImageDriver" -> Lvm_list_images(F, domain)
      [] driver = "RawImageDriver" -> Raw_list_images(domain)
      [] driver = "QcowImageDriver" -> Qcow_list_images(domain)

(* ---------------------------------------------------------------------- *)
(* External tools: utils.execute and the hypervisor library                *)
(* ---------------------------------------------------------------------- *)
\* How one invocation ends: it returns, it raises ProcessExecutionError
\* ("pee"), or it raises another exception ("oserr", the tool cannot be run).
Outcome == {"ok", "pee", "oserr"}

\* The exception an outcome raises.
ErrKind(o) ==
    IF o = "pee" THEN "ProcessExecutionError"
    ELSE IF o = "oserr" THEN "OSError"
    ELSE "libvirtError"

\* How a call into the hypervisor library ends.
HvOutcome == {"ok", "libvirtError"}

\* One entry of the trace of an operation: the command or call ev, issued by
\* the method by, its outcome out, and its numeric argument n (a size in
\* bytes, the seconds of a sleep).
Ev(ev, by, out, n) == [ev |-> ev, by |-> by, out |-> out, n |-> n]

\* An exception: its class and the trace index of the call that raised it
\* (0 when the code of this module raised it itself).
NoErr == [kind |-> "", at |-> 0]
Err(kind, at) == [kind |-> kind, at |-> at]

(* ---------------------------------------------------------------------- *)
(* LvmImage.__try_execute                                                  *)
(* ---------------------------------------------------------------------- *)
MaxTries == 3

\* Variant: a wait that grows linearly.
Backoff_linear(tries) == tries

\* time.sleep(tries ** 2)
Backoff(tries) == tries * tries

\* Variant: the comparison off by one.
GiveUp_late(tries) == tries > MaxTries

\* if tries >= 3: raise
GiveUp(tries) == tries >= MaxTries

\* Outcomes of the successive invocations of one command.
ScriptLen == MaxTries + 1
\* A script is read up to its first outcome other than "pee"; the entries
\* after it are never read and are kept at "ok".
Scripts ==
    { s \in [1..ScriptLen -> Outcome] :
        \A k \in 2..ScriptLen :
          (\E j \in 1..(k - 1) : s[j] # "pee") => s[k] = "ok" }
AllOk == [k \in 1..ScriptLen |-> "ok"]

\* The command ev issued by method by appears in trace t.
Invoked(t, ev, by) == \E i \in 1..Len(t) : t[i].ev = ev /\ t[i].by = by

\* The while loop of __try_execute; tries is the local counter.
RECURSIVE TryLoop(_, _, _, _, _, _)
TryLoop(cmd, by, n, outs, tries, log) ==
    LET o == outs[tries + 1]
        log1 == Append(log, Ev(cmd, by, o, n))
    IN  IF o = "ok" THEN [ok |-> TRUE, err |-> NoErr, log |-> log1]
        ELSE IF o = "pee"
          THEN IF GiveUp(tries + 1)
                 THEN [ok |-> FALSE,
                       err |-> Err("ProcessExecutionError", Len(log1)),
                       log |-> log1]
                 ELSE TryLoop(cmd, by, n, outs, tries + 1,
                              Append(log1, Ev("sleep", "__try_execute", "ok",
                                              Backoff(tries + 1))))
        ELSE [ok |-> FALSE, err |-> Err(ErrKind(o), Len(log1)), log |-> log1]

__try_execute(cmd, by, n, outs, log) == TryLoop(cmd, by, n, outs, 0, log)

\* A plain utils.execute call: one invocation, its failure raised as it is.
execute(cmd, by, n, o, log) ==
    LET log1 == Append(log, Ev(cmd, by, o, n))
    IN  IF o = "ok" THEN [ok |-> TRUE, err |-> NoErr, log |-> log1]
        ELSE [ok |-> FALSE, err |-> Err(ErrKind(o), Len(log1)), log |-> log1]

(* ---------------------------------------------------------------------- *)
(* LvmImage._image_size                                                    *)
(* ---------------------------------------------------------------------- *)
\* str.split(sep) for a one-atom separator: k separators give k+1 parts.
RECURSIVE Split(_, _)
Split(s, sep) ==
    IF s = <<>> THEN << <<>> >>
    ELSE LET rest == Split(Tail(s), sep)
         IN  IF Head(s) = sep THEN << <<>> >> \o rest
             ELSE << <<Head(s)>> \o Head(rest) >> \o Tail(rest)

IsSpace(a) == a \in {" ", "\n"}

\* str.strip()
RECURSIVE LStrip(_)
LStrip(s) == IF s # <<>> /\ IsSpace(Head(s)) THEN LStrip(Tail(s)) ELSE s
RECURSIVE RStrip(_)
RStrip(s) ==
    IF s # <<>> /\ IsSpace(s[Len(s)]) THEN RStrip(SubSeq(s, 1, Len(s) - 1))
    ELSE s
Strip(s) == RStrip(LStrip(s))

\* str.split() with no argument: the runs of non-blank atoms.
RECURSIVE FirstWord(_)
FirstWord(s) ==
    IF s = <<>> \/ IsSpace(Head(s)) THEN <<>>
    ELSE <<Head(s)>> \o FirstWord(Tail(s))
RECURSIVE Words(_)
Words(s) ==
    IF s = <<>> THEN <<>>
    ELSE IF IsSpace(Head(s)) THEN Words(Tail(s))
    ELSE LET w == FirstWord(s)
         IN  <<w>> \o Words(SubSeq(s, Len(w) + 1, Len(s)))

\* int(x): the decimal atoms of the model and their values.
DigitAtoms == {"1024", "2048"}
IntOf(a) == IF a = "1024" THEN 1024 ELSE 2048
Sizes == {IntOf(a) : a \in DigitAtoms}

\* The loop over the lines of the inspector's output, filling the dict data;
\* here data is the value stored under 'virtual size', seen says whether the
\* key is there.
VirtualSizeKey == <<"virtual", " ", "size">>
RECURSIVE ParseLines(_, _, _)
ParseLines(lines, seen, data) ==
    IF lines = <<>> THEN [ok |-> TRUE, seen |-> seen, data |-> data]
    ELSE LET line == Head(lines)
             kv == Split(line, ":")
         IN  IF line = <<>> THEN ParseLines(Tail(lines), seen, data)
             ELSE IF Len(kv) # 2
               THEN [ok |-> FALSE, seen |-> seen, data |-> data]
             ELSE IF kv[1] = VirtualSizeKey
               THEN ParseLines(Tail(lines), TRUE, Strip(kv[2]))
             ELSE ParseLines(Tail(lines), seen, data)

\* The parsing half of _image_size, applied to the inspector's stdout.
ParseSize(stdout) ==
    LET r == ParseLines(Split(stdout, "\n"), FALSE, <<>>)
        parts == Split(r.data, "(")
        words == Words(parts[2])
    IN  IF ~r.ok THEN [ok |-> FALSE, err |-> "ValueError", size |-> 0]
        ELSE IF ~r.seen THEN [ok |-> FALSE, err |-> "KeyError", size |-> 0]
        ELSE IF Len(parts) < 2
          THEN [ok |-> FALSE, err |-> "IndexError", size |-> 0]
        ELSE IF words = <<>>
          THEN [ok |-> FALSE, err |-> "IndexError", size |-> 0]
        ELSE IF Len(words[1]) = 1 /\ words[1][1] \in DigitAtoms
          THEN [ok |-> TRUE, err |-> "", size |-> IntOf(words[1][1])]
        ELSE [ok |-> FALSE, err |-> "ValueError", size |-> 0]

\* What 'qemu-img info' may print.
InfoLine(size) ==
    <<"virtual", " ", "size", ":", " ", "1.0K", " ", "(", size, " ",
      "bytes", ")", "\n">>
InfoOutputs ==
    { <<"image", ":", " ", "base", "\n">> \o InfoLine(a) : a \in DigitAtoms }
    \cup { <<"image", ":", " ", "a", ":", "b", "\n">> \o InfoLine("1024"),
           <<"image", ":", " ", "base", "\n">>,
           <<"virtual", " ", "size", ":", " ", "1.0K", "\n">>,
           InfoLine("1.0K") }

\* Variant: a size of 0 when the output cannot be parsed.
_image_size_default(by, o, stdout, log) ==
    LET x == execute("qemu-img info", by, 0, o, log)
        p == ParseSize(stdout)
    IN  IF ~x.ok THEN [ok |-> FALSE, err |-> x.err, size |-> 0, log |-> x.log]
        ELSE [ok |-> TRUE, err |-> NoErr, size |-> p.size, log |-> x.log]

\* _image_size(image_path): one 'qemu-img info' call, then the parsing.
_image_size(by, o, stdout, log) ==
    LET x == execute("qemu-img info", by, 0, o, log)
        p == ParseSize(stdout)
    IN  IF ~x.ok THEN [ok |-> FALSE, err |-> x.err, size |-> 0, log |-> x.log]
        ELSE IF ~p.ok
          THEN [ok |-> FALSE, err |-> Err(p.err, 0), size |-> 0, log |-> x.log]
        ELSE [ok |-> TRUE, err |-> NoErr, size |-> p.size, log |-> x.log]

(* ---------------------------------------------------------------------- *)
(* LvmImage                                                                *)
(* ---------------------------------------------------------------------- *)
\* The result of a method: whether it returned, the exception it raised, the
\* value it returned and the trace of the tools it invoked.
Returned(ret, log) == [ok |-> TRUE, err |-> NoErr, ret |-> ret, log |-> log]
Raised(err, log) == [ok |-> FALSE, err |-> err, ret |-> "", log |-> log]

\* LvmImage.create_from_raw(base): size probe, allocation, conversion.
LvmImage_create_from_raw(oInfo, stdout, outs, oConv) ==
    LET by == "LvmImage.create_from_raw"
        s == _image_size(by, oInfo, stdout, <<>>)
        a == __try_execute("lvcreate", by, s.size, outs, s.log)
        c == execute("qemu-img convert", by, 0, oConv, a.log)
    IN  IF ~s.ok THEN Raised(s.err, s.log)
        ELSE IF ~a.ok THEN Raised(a.err, a.log)
        ELSE IF ~c.ok THEN Raised(c.err, c.log)
        ELSE Returned("None", c.log)

\* Variant: only ProcessExecutionError is taken as "absent".
__volume_not_present_pee(o, log) ==
    LET x == [log |-> Append(log, Ev("lvdisplay",
                                     "LvmImage.__volume_not_present", o, 0))]
    IN  [absent |-> o = "pee", log |-> x.log]

\* LvmImage.__volume_not_present: any exception of the probe means absent.
__volume_not_present(o, log) ==
    LET x == execute("lvdisplay", "LvmImage.__volume_not_present", 0, o, log)
    IN  [absent |-> ~x.ok, log |-> x.log]

\* What 'lvdisplay --noheading -C -o Attr' may print, character by character.
AttrOutputs ==
    { <<>>,
      <<" ", " ", "-", "w", "i", "-", "a", "-", "\n">>,
      <<" ", " ", "-", "w", "i", "-", "a", "o", "\n">>,
      <<" ", " ", "O", "w", "i", "-", "a", "-", "\n">> }

\* 'c' in out
Contains(c, out) == \E i \in 1..Len(out) : out[i] = c

\* Variant: the test without the upper-case flag.
IsOpen_lower(out) == out # <<>> /\ \E i \in 1..Len(out) : out[i] = "o"

\* The test of delete() on the attribute flags.
IsOpen(out) ==
    /\ out # <<>>
    /\ Contains("o", Strip(out)) \/ Contains("O", Strip(out))

\* Variant: the removal with its failure swallowed.
__delete_image_quiet(outs, log) ==
    LET x == __try_execute("lvremove", "LvmImage.__delete_image", 0, outs, log)
    IN  [ok |-> TRUE, err |-> NoErr, log |-> x.log]

\* LvmImage.__delete_image(volume)
__delete_image(outs, log) ==
    __try_execute("lvremove", "LvmImage.__delete_image", 0, outs, log)

\* LvmImage.delete()
LvmImage_delete(oProbe, oAttr, attr, oDm, outs) ==
    LET by == "LvmImage.delete"
        p == __volume_not_present(oProbe, <<>>)
        q == execute("lvdisplay -C -o Attr", by, 0, oAttr, p.log)
        d == IF IsOpen(attr) THEN execute("dmsetup remove", by, 0, oDm, q.log)
             ELSE [ok |-> TRUE, err |-> NoErr, log |-> q.log]
        r == __delete_image(outs, d.log)
    IN  IF p.absent THEN Returned("True", p.log)
        ELSE IF ~q.ok THEN Raised(q.err, q.log)
        ELSE IF ~d.ok THEN Raised(d.err, d.log)
        ELSE IF ~r.ok THEN Raised(r.err, r.log)
        ELSE Returned("None", r.log)

(* ---------------------------------------------------------------------- *)
(* _FileImage                                                              *)
(* ---------------------------------------------------------------------- *)
\* What os.remove(path) gives for a path that is a string: it returns, or it
\* raises OSError (no such file, permission denied, ...).
RemoveOutcome == {"ok", "oserr"}

IsFileImage(image) == image.kind \in {"RawImage", "QcowImage"}

\* _FileImage.delete(): os.remove(self.path()) with OSError caught and
\* logged.  os.remove refuses a path of None with TypeError, which the
\* except clause does not catch.
_FileImage_delete(image, o) ==
    LET by == "_FileImage.delete"
    IN  IF path(image) = None
          THEN Raised(Err("TypeError", 1),
                      <<Ev("os.remove", by, "TypeError", 0)>>)
        ELSE IF o = "oserr"
          THEN Returned("None", <<Ev("os.remove", by, o, 0),
                                  Ev("LOG.error", by, "", 0)>>)
        ELSE Returned("None", <<Ev("os.remove", by, o, 0)>>)

(* ---------------------------------------------------------------------- *)
(* Snapshots                                                               *)
(* ---------------------------------------------------------------------- *)
SnapshotKinds == {"RawSnapshot", "QcowSnapshot", "LvmSnapshot"}

\* A snapshot object; ptr is _snapshot_ptr, 0 while the attribute is unset.
NoSnap == [kind |-> "", force_live |-> FALSE, size |-> 0, ptr |-> 0]
NewSnapshot(kind, size, force_live) ==
    [kind |-> kind, force_live |-> force_live, size |-> size, ptr |-> 0]

\* Variant: the guard without the force_live override.
MustBeSuspended_always(force_live, active) == active

\* The guard of LvmSnapshot.create: refuse a running domain unless forced.
MustBeSuspended(force_live, active) == ~force_live /\ active

\* Variant: the allocation with a size of its own, not the stored one.
LvmSnapshot_create_resized(s, active, o, log) ==
    LET by == "LvmSnapshot.create"
        log1 == IF s.force_live THEN log
                ELSE Append(log, Ev("isActive", by, "ok",
                                    IF active THEN 1 ELSE 0))
        x == execute("lvcreate -s", by, 1024, o, log1)
    IN  IF MustBeSuspended(s.force_live, active)
          THEN Raised(Err("RuntimeError", 0), log1)
        ELSE IF ~x.ok THEN Raised(x.err, x.log)
        ELSE Returned("self", x.log)

\* LvmSnapshot.create(); isActive() is only asked when force_live is unset.
LvmSnapshot_create(s, active, o, log) ==
    LET by == "LvmSnapshot.create"
        log1 == IF s.force_live THEN log
                ELSE Append(log, Ev("isActive", by, "ok",
                                    IF active THEN 1 ELSE 0))
        x == execute("lvcreate -s", by, s.size, o, log1)
    IN  IF MustBeSuspended(s.force_live, active)
          THEN Raised(Err("RuntimeError", 0), log1)
        ELSE IF ~x.ok THEN Raised(x.err, x.log)
        ELSE Returned("self", x.log)

\* LvmSnapshot.convert_to_raw(destination)
LvmSnapshot_convert_to_raw(o, log) ==
    LET x == execute("dd", "LvmSnapshot.convert_to_raw", 0, o, log)
    IN  IF x.ok THEN Returned("None", x.log) ELSE Raised(x.err, x.log)

\* Variant: the removal of the snapshot through the retrying helper.
LvmSnapshot_delete_retrying(o, log) ==
    LET x == __try_execute("lvremove", "LvmSnapshot.delete", 0,
                           [k \in 1..ScriptLen |-> o], log)
    IN  IF x.ok THEN Returned("None", x.log) ELSE Raised(x.err, x.log)

\* LvmSnapshot.delete()
LvmSnapshot_delete(o, log) ==
    LET x == execute("lvremove", "LvmSnapshot.delete", 0, o, log)
    IN  IF x.ok THEN Returned("None", x.log) ELSE Raised(x.err, x.log)

\* _LibvirtSnapshot.create()
Libvirt_create(o, log) ==
    LET x == execute("snapshotCreateXML", "_LibvirtSnapshot.create", 0, o, log)
    IN  IF x.ok THEN Returned("self", x.log) ELSE Raised(x.err, x.log)

\* Variant: the attribute keeps the first handle it was given.
SnapshotAfterCreate_first(s, r, handle) ==
    IF s.kind = "LvmSnapshot" \/ ~r.ok \/ s.ptr # 0 THEN s
    ELSE [s EXCEPT !.ptr = handle]

\* The object after create() ended with r: _LibvirtSnapshot.create assigns
\* the handle snapshotCreateXML returned to self._snapshot_ptr; nothing is
\* assigned when the call raised, and LvmSnapshot.create assigns nothing.
SnapshotAfterCreate(s, r, handle) ==
    IF s.kind = "LvmSnapshot" \/ ~r.ok THEN s
    ELSE [s EXCEPT !.ptr = handle]

\* _LibvirtSnapshot._convert_to_raw(format, destination)
Libvirt_convert_to_raw(o, log) ==
    LET x == execute("qemu-img convert -s", "_LibvirtSnapshot._convert_to_raw",
                     0, o, log)
    IN  IF x.ok THEN Returned("None", x.log) ELSE Raised(x.err, x.log)

\* _LibvirtSnapshot.delete(): reads self._snapshot_ptr, set only by create().
Libvirt_delete(s, o, log) ==
    LET x == execute("snapshot.delete", "_LibvirtSnapshot.delete", s.ptr, o,
                     log)
    IN  IF s.ptr = 0 THEN Raised(Err("AttributeError", 0), log)
        ELSE IF x.ok THEN Returned("None", x.log)
        ELSE Raised(x.err, x.log)

\* Dispatch on the snapshot class.
IsLvm(s) == s.kind = "LvmSnapshot"

create(s, active, o, log) ==
    IF IsLvm(s) THEN LvmSnapshot_create(s, active, o, log)
    ELSE Libvirt_create(o, log)

convert_to_raw(s, o, log) ==
    IF IsLvm(s) THEN LvmSnapshot_convert_to_raw(o, log)
    ELSE Libvirt_convert_to_raw(o, log)

delete(s, o, log) ==
    IF IsLvm(s) THEN LvmSnapshot_delete(o, log)
    ELSE Libvirt_delete(s, o, log)

\* Variant: an exception of create() is not passed on.
__enter__quiet(s, active, o, log) ==
    LET r == create(s, active, o,
                    Append(log, Ev("create()", "Snapshot.__enter__", "", 0)))
    IN  Returned("self", r.log)

\* Snapshot.__enter__: return self.create()
__enter__(s, active, o, log) ==
    create(s, active, o, Append(log, Ev("create()", "Snapshot.__enter__", "", 0)))

\* Variant: delete() only when the block raised nothing.
__exit__clean(s, exc, o, log) ==
    IF exc = NoErr
      THEN delete(s, o, Append(log, Ev("delete()", "Snapshot.__exit__", "", 0)))
      ELSE Returned("None", log)

\* Snapshot.__exit__(exc_type, exc_value, traceback): self.delete(), whatever
\* the block raised; the method returns None, so the exception is not
\* suppressed.
__exit__(s, exc, o, log) ==
    delete(s, o, Append(log, Ev("delete()", "Snapshot.__exit__", "", 0)))

(* ---------------------------------------------------------------------- *)
(* State                                                                   *)
(* ---------------------------------------------------------------------- *)
VARIABLES
    flags,        \* FLAGS: the configuration
    volPresent,   \* the logical volume of the LvmImage exists
    snapPresent,  \* the logical volume of the LvmSnapshot exists
    domainActive, \* the run state of the domain at the last __enter__
    snap,         \* the Snapshot object made by make_snapshot, or NoSnap
    pc,           \* where the caller's 'with snapshot:' statement stands
    pending,      \* the exception the block of the with statement raised
    log,          \* the trace of the operation in progress or last finished
    filePresent,  \* the file of the file-backed image last deleted exists
    volSize,      \* the size in bytes of that logical volume, 0 while absent
    hvLast,       \* the handle the hypervisor last returned for the snapshot object, 0 = none
    result        \* what the last finished operation gave its caller

vars ==
    <<flags, hvLast, volSize, filePresent, volPresent, snapPresent, domainActive, snap, pc, pending, log,
      result>>

\* What a caller gets from an operation op called with args: r is the
\* method's result, val an operation-specific value.
Res(op, args, r, val) ==
    [op |-> op, args |-> args, ok |-> r.ok, err |-> r.err, ret |-> r.ret,
     val |-> val]

\* No operation has finished (or a with statement is still running).
NoResult ==
    [op |-> "", args |-> <<>>, ok |-> TRUE, err |-> NoErr, ret |-> "",
     val |-> <<>>]

\* A tool invocation of the trace that succeeded.
Succeeded(t, ev, by) ==
    \E i \in 1..Len(t) : t[i].ev = ev /\ t[i].by = by /\ t[i].out = "ok"

\* The configuration the image and snapshot operations run under.
LvmFlags ==
    [local_images_type |-> "lvm", use_cow_images |-> FALSE,
     lvm_volume_group |-> <<"vg0">>,
     instances_path |-> <<"/", "var", "/", "instances">>]

\* A fresh host: no volume, no snapshot object, nothing called yet.
Idle ==
    /\ volPresent = FALSE
    /\ snapPresent = FALSE
    /\ domainActive = FALSE
    /\ snap = NoSnap
    /\ filePresent = FALSE
    /\ volSize = 0
    /\ hvLast = 0
    /\ pc = "idle"
    /\ pending = NoErr
    /\ log = <<>>
    /\ result = NoResult

Init == flags = LvmFlags /\ Idle

\* Any configuration, for the driver operations.
InitDrivers == flags \in FlagsSet /\ Idle

(* ---------------------------------------------------------------------- *)
(* Driver operations                                                       *)
(* ---------------------------------------------------------------------- *)
InstanceNames == {<<"i1">>}
ImageNames == {Omitted, None, <<>>, <<"disk">>}
Suffixes == {Omitted, <<>>, <<"local">>}

\* The disk sources of a domain description: their dev and file attributes.
SourceEntries ==
    { [dev |-> None, file |-> None],
      [dev |-> <<"/", "dev", "/", "vg0", "/", "i1">>, file |-> None],
      [dev |-> None,
       file |-> <<"/", "var", "/", "instances", "/", "i1", "/", "disk">>] }
Domains == UNION { [1..n -> SourceEntries] : n \in 0..MaxDisks }

\* A call of select_driver().
SelectDriver ==
    /\ pc = "idle"
    /\ LET r == select_driver(flags)
       IN  result' = [op |-> "select_driver", args |-> <<>>, ok |-> r.ok,
                      err |-> Err(r.err, 0), ret |-> r.driver,
                      val |-> r.names]
    /\ log' = <<>>
    /\ UNCHANGED <<flags, hvLast, volSize, filePresent, volPresent, snapPresent, domainActive, snap, pc, pending>>

\* create_image(...) followed by image_info(...) with the same arguments.
CreateImageThenInfo ==
    /\ pc = "idle"
    /\ \E driver \in Drivers, instance_name \in InstanceNames,
          image_name \in ImageNames, suffix \in Suffixes :
         LET c == create_image(driver, flags, instance_name, image_name, suffix)
             i == image_info(driver, flags, instance_name, image_name, suffix)
         IN  result' = [op |-> "create_image;image_info",
                        args |-> <<driver, instance_name, image_name, suffix>>,
                        ok |-> c.ok /\ i.ok,
                        err |-> Err(IF ~c.ok THEN c.err ELSE i.err, 0),
                        ret |-> "",
                        val |-> [created |-> c, info |-> i]]
    /\ log' = <<>>
    /\ UNCHANGED <<flags, hvLast, volSize, filePresent, volPresent, snapPresent, domainActive, snap, pc, pending>>

\* A call of list_images(virt_domain).
ListImages ==
    /\ pc = "idle"
    /\ \E driver \in Drivers, domain \in Domains :
         result' = [op |-> "list_images", args |-> <<driver, domain>>,
                    ok |-> TRUE, err |-> NoErr, ret |-> "",
                    val |-> list_images(driver, flags, domain)]
    /\ log' = <<>>
    /\ UNCHANGED <<flags, hvLast, volSize, filePresent, volPresent, snapPresent, domainActive, snap, pc, pending>>

\* The file-backed images the caller holds: the ones the last list_images or
\* create_image returned, or the one delete() was last called on.
HeldFileImages ==
    LET held ==
          CASE result.op = "list_images" ->
                 {result.val[k] : k \in 1..Len(result.val)}
            [] result.op = "create_image;image_info" ->
                 IF result.val.created.ok THEN {result.val.created.image}
                 ELSE {}
            [] result.op = "_FileImage.delete" -> {result.args[1]}
            [] OTHER -> {}
    IN  {image \in held : IsFileImage(image)}

\* A call of delete() on a file-backed image.  Whether the file exists when
\* delete() is first called on an image is up to the host; os.remove only
\* succeeds on an existing file, and the file is gone afterwards.
FileDelete ==
    /\ pc = "idle"
    /\ \E image \in HeldFileImages, present \in BOOLEAN, o \in RemoveOutcome :
         /\ result.op = "_FileImage.delete" => present = filePresent
         /\ path(image) = None => (~present /\ o = "oserr")
         /\ o = "ok" => present
         /\ \E r \in {_FileImage_delete(image, o)} :
              /\ result' = Res("_FileImage.delete", <<image>>, r, <<>>)
              /\ log' = r.log
              /\ filePresent' = (present /\ o # "ok")
    /\ UNCHANGED <<flags, hvLast, volSize, volPresent, snapPresent, domainActive, snap, pc, pending>>

(* ---------------------------------------------------------------------- *)
(* LvmImage operations                                                     *)
(* ---------------------------------------------------------------------- *)
\* A call of LvmImage.create_from_raw(base).  The inputs are the outcomes of
\* the tools; an input the call does not read is kept at a fixed value.
\* lvcreate cannot succeed while the volume exists; the volume it makes has
\* the size it was asked for.
CreateFromRaw ==
    /\ pc = "idle"
    /\ \E oInfo \in Outcome, stdout \in InfoOutputs \cup {<<>>} :
         /\ oInfo # "ok" => stdout = <<>>
         /\ \E outs \in Scripts :
              /\ (oInfo # "ok" \/ ~ParseSize(stdout).ok) => outs = AllOk
              /\ \E oConv \in Outcome :
                   \E r \in {LvmImage_create_from_raw(oInfo, stdout, outs,
                                                      oConv)} :
                   LET made == Succeeded(r.log, "lvcreate",
                                         "LvmImage.create_from_raw")
                   IN  /\ volPresent => ~made
                       /\ ~Invoked(r.log, "qemu-img convert",
                                   "LvmImage.create_from_raw")
                            => oConv = "ok"
                       /\ result' = Res("LvmImage.create_from_raw", <<stdout>>,
                                        r, <<>>)
                       /\ log' = r.log
                       /\ volPresent' = (volPresent \/ made)
                       /\ volSize' = IF made THEN ParseSize(stdout).size
                                     ELSE volSize
    /\ UNCHANGED <<flags, hvLast, filePresent, snapPresent, domainActive, snap, pc, pending>>

\* A call of LvmImage.delete().  The probe cannot succeed on an absent
\* volume; a successful lvremove removes the volume and its snapshot.
Delete ==
    /\ pc = "idle"
    /\ \E oProbe \in Outcome :
         /\ ~volPresent => oProbe # "ok"
         /\ \E oAttr \in Outcome, attr \in AttrOutputs :
              /\ oProbe # "ok" => oAttr = "ok"
              /\ (oProbe # "ok" \/ oAttr # "ok") => attr = <<>>
              /\ \E oDm \in Outcome, outs \in Scripts :
                   \E r \in {LvmImage_delete(oProbe, oAttr, attr, oDm, outs)} :
                   LET gone == Succeeded(r.log, "lvremove",
                                         "LvmImage.__delete_image")
                   IN  /\ ~Invoked(r.log, "dmsetup remove", "LvmImage.delete")
                            => oDm = "ok"
                       /\ ~Invoked(r.log, "lvremove",
                                   "LvmImage.__delete_image")
                            => outs = AllOk
                       /\ result' = Res("LvmImage.delete", <<attr>>, r, <<>>)
                       /\ log' = r.log
                       /\ volPresent' = (volPresent /\ ~gone)
                       /\ snapPresent' = (snapPresent /\ ~gone)
                       /\ volSize' = IF gone THEN 0 ELSE volSize
    /\ UNCHANGED <<flags, hvLast, filePresent, domainActive, snap, pc, pending>>

(* ---------------------------------------------------------------------- *)
(* Snapshot operations                                                     *)
(* ---------------------------------------------------------------------- *)
\* Image.make_snapshot(virt_domain, snapshot_name, force_live_snapshot):
\* RawImage and QcowImage build the object; LvmImage probes its size first
\* (a size the inspector reports for the volume is the volume's size).
MakeSnapshot ==
    /\ pc = "idle"
    /\ \E kind \in SnapshotKinds, force_live \in BOOLEAN, oInfo \in Outcome,
          stdout \in InfoOutputs \cup {<<>>} :
         IF kind = "LvmSnapshot"
           THEN /\ ~volPresent => oInfo # "ok"
                /\ oInfo # "ok" => stdout = <<>>
                /\ \E s \in {_image_size("LvmImage.make_snapshot", oInfo,
                                         stdout, <<>>)} :
                       /\ s.ok => s.size = volSize
                       /\ log' = s.log
                       /\ result' = [op |-> "make_snapshot",
                                     args |-> <<kind, force_live>>,
                                     ok |-> s.ok, err |-> s.err, ret |-> "",
                                     val |-> <<>>]
                       /\ snap' = IF s.ok
                                    THEN NewSnapshot(kind, s.size, force_live)
                                    ELSE snap
           ELSE /\ oInfo = "ok" /\ stdout = <<>>
                /\ log' = <<>>
                /\ result' = [op |-> "make_snapshot",
                              args |-> <<kind, force_live>>, ok |-> TRUE,
                              err |-> NoErr, ret |-> "", val |-> <<>>]
                /\ snap' = NewSnapshot(kind, 0, FALSE)
    /\ hvLast' = IF result'.ok THEN 0 ELSE hvLast
    /\ UNCHANGED <<flags, volSize, filePresent, volPresent, snapPresent, domainActive, pc, pending>>

\* The outcomes a tool or the hypervisor can give a snapshot method.
CreateOutcomes(s) ==
    IF IsLvm(s)
      THEN IF volPresent /\ ~snapPresent THEN Outcome ELSE Outcome \ {"ok"}
      ELSE IF hvLast < MaxHandles THEN HvOutcome ELSE HvOutcome \ {"ok"}
UseOutcomes(s) ==
    IF IsLvm(s)
      THEN IF snapPresent THEN Outcome ELSE Outcome \ {"ok"}
      ELSE Outcome
DeleteOutcomes(s) ==
    IF IsLvm(s)
      THEN IF snapPresent THEN Outcome ELSE Outcome \ {"ok"}
      ELSE HvOutcome

\* 'with snapshot:' begins: __enter__ is called.  When it raises, the
\* statement is over: the block does not run and __exit__ is not called.
Enter ==
    /\ pc = "idle"
    /\ snap # NoSnap
    /\ \E active \in BOOLEAN, o \in CreateOutcomes(snap) :
         \E r \in {__enter__(snap, active, o, <<>>)} :
             /\ log' = r.log
             /\ domainActive' = active
             /\ IF r.ok
                  THEN /\ pc' = "block"
                       /\ result' = NoResult
                       /\ snap' = SnapshotAfterCreate(snap, r, hvLast + 1)
                       /\ hvLast' = IF IsLvm(snap) THEN hvLast ELSE hvLast + 1
                       /\ snapPresent' = (snapPresent \/ IsLvm(snap))
                  ELSE /\ pc' = "idle"
                       /\ result' = Res("with", <<snap.kind>>, r,
                                        [entered |-> FALSE, block |-> NoErr])
                       /\ UNCHANGED <<snap, hvLast, snapPresent>>
    /\ UNCHANGED <<flags, volSize, filePresent, volPresent, pending>>

\* The block of the with statement: snapshot.convert_to_raw(destination).
Block ==
    /\ pc = "block"
    /\ \E o \in UseOutcomes(snap) :
         \E r \in {convert_to_raw(snap, o, log)} :
             /\ log' = r.log
             /\ pending' = r.err
    /\ pc' = "exit"
    /\ UNCHANGED <<flags, hvLast, volSize, filePresent, volPresent, snapPresent, domainActive, snap, result>>

\* The with statement ends: __exit__ is called with the block's exception,
\* then the caller gets the exception of __exit__ if it raised, else the
\* block's exception (which __exit__ does not suppress), else nothing.
Exit ==
    /\ pc = "exit"
    /\ \E o \in DeleteOutcomes(snap) :
         \E r \in {__exit__(snap, pending, o, log)} :
         LET e == IF ~r.ok THEN r.err ELSE pending
         IN  /\ log' = r.log
             /\ result' = [op |-> "with", args |-> <<snap.kind>>,
                           ok |-> e = NoErr, err |-> e, ret |-> "",
                           val |-> [entered |-> TRUE, block |-> pending]]
             /\ snapPresent' =
                  (snapPresent
                     /\ ~Succeeded(r.log, "lvremove", "LvmSnapshot.delete"))
    /\ pc' = "idle"
    /\ pending' = NoErr
    /\ UNCHANGED <<flags, hvLast, volSize, filePresent, volPresent, domainActive, snap>>

\* A call of snapshot.create() outside a with statement.  The hypervisor
\* returns a handle it has not returned before.
SnapCreate ==
    /\ pc = "idle"
    /\ snap # NoSnap
    /\ \E active \in BOOLEAN, o \in CreateOutcomes(snap) :
         \E r \in {create(snap, active, o, <<>>)} :
             /\ log' = r.log
             /\ domainActive' = active
             /\ result' = Res("Snapshot.create", <<snap.kind>>, r, <<>>)
             /\ snap' = SnapshotAfterCreate(snap, r, hvLast + 1)
             /\ hvLast' = IF IsLvm(snap) \/ ~r.ok THEN hvLast ELSE hvLast + 1
             /\ snapPresent' = (snapPresent \/ (IsLvm(snap) /\ r.ok))
    /\ UNCHANGED <<flags, volSize, filePresent, volPresent, pc, pending>>

\* A call of snapshot.delete() outside a with statement.
SnapDelete ==
    /\ pc = "idle"
    /\ snap # NoSnap
    /\ \E o \in DeleteOutcomes(snap) :
         \E r \in {delete(snap, o, <<>>)} :
             /\ ~Invoked(r.log, "snapshot.delete", "_LibvirtSnapshot.delete")
                  => o = "ok" \/ IsLvm(snap)
             /\ log' = r.log
             /\ result' = Res("Snapshot.delete", <<snap.kind>>, r, <<>>)
             /\ snapPresent' =
                  (snapPresent
                     /\ ~Succeeded(r.log, "lvremove", "LvmSnapshot.delete"))
    /\ UNCHANGED <<flags, hvLast, volSize, filePresent, volPresent, domainActive, snap, pc, pending>>

\* The image and snapshot operations.
Next ==
    \/ CreateFromRaw
    \/ Delete
    \/ MakeSnapshot
    \/ SnapCreate
    \/ SnapDelete
    \/ Enter
    \/ Block
    \/ Exit

Spec == Init /\ [][Next]_vars

\* The driver operations, under every configuration.
NextDrivers ==
    \/ SelectDriver
    \/ CreateImageThenInfo
    \/ ListImages
    \/ FileDelete

SpecDrivers == InitDrivers /\ [][NextDrivers]_vars

(* ---------------------------------------------------------------------- *)
(* Properties                                                              *)
(* ---------------------------------------------------------------------- *)
\* The entries of a trace with command ev issued by method by, in order.
Calls(t, ev, by) ==
    LET Is(e) == e.ev = ev /\ e.by = by IN SelectSeq(t, Is)

\* The outcomes of those entries, in order.
Outs(t, ev, by) ==
    LET c == Calls(t, ev, by) IN [i \in 1..Len(c) |-> c[i].out]

\* The seconds of the sleeps of a trace, in order, and their sum.
Sleeps(t) ==
    LET Is(e) == e.ev = "sleep"
        c == SelectSeq(t, Is)
    IN  [i \in 1..Len(c) |-> c[i].n]
RECURSIVE Sum(_)
Sum(q) == IF q = <<>> THEN 0 ELSE Head(q) + Sum(Tail(q))

\* The with statement has ended and create() had succeeded on entry.
ScopeLeft == result.op = "with" /\ result.val.entered

\* C1: when create() succeeded on scope entry, delete() has been invoked
\* exactly once by the time the with statement hands its outcome (normal end
\* or the exception of convert_to_raw) to the caller; as long as the block
\* or __exit__ is still to run the caller has received nothing.
C1_ScopedDeleteOnce ==
    /\ ScopeLeft => Len(Calls(log, "delete()", "Snapshot.__exit__")) = 1
    /\ pc \in {"block", "exit"}
         => /\ result = NoResult
            /\ Len(Calls(log, "delete()", "Snapshot.__exit__")) = 0

\* C1 witness: convert_to_raw raised inside the block, the exception reached
\* the caller, and delete() was invoked.
C1_Witness ==
    /\ ScopeLeft
    /\ result.val.block.kind = "ProcessExecutionError"
    /\ result.err = result.val.block
    /\ Len(Calls(log, "delete()", "Snapshot.__exit__")) = 1

\* create() of an LvmSnapshot was called by the operation of the trace.
LvmCreateCalled ==
    IsLvm(snap) /\ Invoked(log, "create()", "Snapshot.__enter__")

\* C2: LvmSnapshot.create() on an active domain without force_live fails
\* with the "must be suspended" error and never invokes lvcreate; with
\* force_live, or on an inactive domain, it invokes lvcreate.
C2_LiveSnapshotGuard ==
    LvmCreateCalled =>
      IF domainActive /\ ~snap.force_live
        THEN /\ result.op = "with"
             /\ ~result.ok
             /\ result.err = Err("RuntimeError", 0)
             /\ ~Invoked(log, "lvcreate -s", "LvmSnapshot.create")
        ELSE Invoked(log, "lvcreate -s", "LvmSnapshot.create")

\* C2 witness: create() refused a running domain.
C2_Witness ==
    /\ LvmCreateCalled
    /\ domainActive
    /\ ~snap.force_live
    /\ result.err.kind = "RuntimeError"

\* The outcomes of the lvcreate attempts of create_from_raw, in order.
AllocOuts == Outs(log, "lvcreate", "LvmImage.create_from_raw")

\* C3: create_from_raw invokes lvcreate at most 3 times; when three attempts
\* failed with a process-execution error, the call raises the error of the
\* third attempt, which is the last entry of the trace: no fourth attempt,
\* no sleep after it.
C3_ThreeAttempts ==
    result.op = "LvmImage.create_from_raw" =>
      /\ Len(AllocOuts) <= 3
      /\ (Len(AllocOuts) = 3 /\ \A i \in 1..3 : AllocOuts[i] = "pee")
           => /\ ~result.ok
              /\ result.err = Err("ProcessExecutionError", Len(log))
              /\ log[Len(log)].ev = "lvcreate"

\* C3 witness: three failed attempts.
C3_Witness ==
    /\ result.op = "LvmImage.create_from_raw"
    /\ AllocOuts = <<"pee", "pee", "pee">>
    /\ ~result.ok

\* C4: when lvcreate fails on the first and second attempts and succeeds on
\* the third, the allocation succeeds (the volume exists and the conversion
\* is invoked), the waits are 1 second then 4 seconds, each right after its
\* failure, 5 seconds in all; when the first attempt succeeds nothing waits.
C4_Backoff ==
    result.op = "LvmImage.create_from_raw" =>
      /\ AllocOuts = <<"pee", "pee", "ok">>
           => /\ volPresent
              /\ Invoked(log, "qemu-img convert", "LvmImage.create_from_raw")
              /\ Sleeps(log) = <<1, 4>>
              /\ Sum(Sleeps(log)) >= 1 + 4
              /\ \A i \in 1..Len(log) :
                   (log[i].ev = "lvcreate" /\ log[i].out = "pee")
                     => log[i + 1].ev = "sleep"
      /\ (Len(AllocOuts) > 0 /\ AllocOuts[1] = "ok") => Sleeps(log) = <<>>

\* C4 witness: two failures, then success.
C4_Witness ==
    /\ result.op = "LvmImage.create_from_raw"
    /\ AllocOuts = <<"pee", "pee", "ok">>
    /\ result.ok

\* A removal command in a trace.
RemovalInvoked(t) ==
    \/ Invoked(t, "lvremove", "LvmImage.__delete_image")
    \/ Invoked(t, "dmsetup remove", "LvmImage.delete")

\* C5: when the presence probe of delete() fails, for whatever reason,
\* delete() returns True having invoked nothing but the probe; and a delete()
\* that follows a delete() whose lvremove succeeded issues no removal.
C5_DeleteAbsent ==
    /\ [](result.op = "LvmImage.delete" /\ log[1].out # "ok"
            => /\ result.ok
               /\ result.ret = "True"
               /\ Len(log) = 1)
    /\ [][(/\ result.op = "LvmImage.delete"
           /\ Succeeded(log, "lvremove", "LvmImage.__delete_image")
           /\ result'.op = "LvmImage.delete")
            => ~RemovalInvoked(log')]_vars

\* C5 witness: the probe failed without ProcessExecutionError and delete()
\* returned True.
C5_Witness ==
    /\ result.op = "LvmImage.delete"
    /\ log[1].out = "oserr"
    /\ result.ret = "True"

\* The attribute flags contain 'o' or 'O'.
HasOpenFlag(attr) == \E i \in 1..Len(attr) : attr[i] \in {"o", "O"}

\* delete() found the volume and read its attribute flags.
FlagsRead ==
    /\ result.op = "LvmImage.delete"
    /\ Succeeded(log, "lvdisplay -C -o Attr", "LvmImage.delete")

\* C6: on a present volume whose flags contain 'o' or 'O', delete() invokes
\* the mapping removal right after reading the flags and invokes lvremove
\* only after the mapping removal has succeeded; when the flags contain
\* neither, no mapping removal is invoked.
C6_MappingFirst ==
    FlagsRead =>
      IF HasOpenFlag(result.args[1])
        THEN /\ log[3].ev = "dmsetup remove"
             /\ \A i \in 1..Len(log) :
                  log[i].ev = "lvremove" => i > 3 /\ log[3].out = "ok"
        ELSE ~Invoked(log, "dmsetup remove", "LvmImage.delete")

\* C6 witness: an upper-case flag, the mapping removed, then the volume.
C6_Witness ==
    /\ FlagsRead
    /\ Contains("O", result.args[1])
    /\ Succeeded(log, "dmsetup remove", "LvmImage.delete")
    /\ Succeeded(log, "lvremove", "LvmImage.__delete_image")

\* The source reference a driver reads from a disk entry.
SourceOf(driver, entry) ==
    IF driver = "LvmImageDriver" THEN entry.dev ELSE entry.file

\* C7: for every driver, list_images returns one Image per disk entry whose
\* source reference is present and no Image for an entry whose source
\* reference is None.
C7_ListFiltersNoSource ==
    result.op = "list_images" =>
      LET driver == result.args[1]
          domain == result.args[2]
          present == {i \in 1..Len(domain) : SourceOf(driver, domain[i]) # None}
      IN  /\ Len(result.val) = Cardinality(present)
          /\ \A k \in 1..Len(result.val) : path(result.val[k]) # None

\* The driver the policy names for a configuration, "" when it names none.
PolicyDriver(F) ==
    CASE F.local_images_type = "raw" -> "RawImageDriver"
      [] F.local_images_type = "qcow" -> "QcowImageDriver"
      [] F.local_images_type = "lvm" -> "LvmImageDriver"
      [] F.local_images_type = "legacy" /\ F.use_cow_images -> "QcowImageDriver"
      [] F.local_images_type = "legacy" /\ ~F.use_cow_images -> "RawImageDriver"
      [] OTHER -> ""

\* C8: select_driver maps 'raw', 'qcow', 'lvm' to their drivers whatever
\* use_cow_images is, 'legacy' to Qcow or Raw by use_cow_images, fails on any
\* other value with the error that names the value, and leaves the
\* configuration and the rest of the state as they were.
C8_SelectDriver ==
    /\ [](result.op = "select_driver" =>
            IF PolicyDriver(flags) # ""
              THEN result.ok /\ result.ret = PolicyDriver(flags)
              ELSE /\ ~result.ok
                   /\ result.err.kind = "RuntimeError: No driver found for"
                   /\ result.val = flags.local_images_type)
    /\ [][result'.op = "select_driver" =>
            UNCHANGED <<flags, hvLast, volSize, filePresent, volPresent, snapPresent, domainActive, snap,
                        pc, pending>>]_vars

\* C8 witness: the legacy value with copy-on-write images selects Qcow.
C8_Witness ==
    /\ result.op = "select_driver"
    /\ flags.local_images_type = "legacy"
    /\ flags.use_cow_images
    /\ result.ret = "QcowImageDriver"

\* C9: for every driver and every argument tuple, image_name and suffix
\* omitted or not, create_image returns an Image and image_info with the same
\* arguments gives a 'disk' equal to the path() of that Image.
C9_InfoMatchesImage ==
    result.op = "create_image;image_info" =>
      /\ result.val.created.ok
      /\ result.val.info.ok
      /\ result.val.info.disk = path(result.val.created.image)

\* An invocation that ended in a failure.
Failed(e) == e.out \notin {"ok", ""}

\* The entry after entry i is neither a sleep nor the same command again.
NotRetried(t, i) ==
    i < Len(t) =>
      /\ t[i + 1].ev # "sleep"
      /\ ~(t[i + 1].ev = t[i].ev /\ t[i + 1].by = t[i].by)

IsAllocation(e) == e.ev = "lvcreate" /\ e.by = "LvmImage.create_from_raw"
IsImageRemoval(e) == e.ev = "lvremove" /\ e.by = "LvmImage.__delete_image"
IsProbe(e) == e.ev = "lvdisplay" /\ e.by = "LvmImage.__volume_not_present"

\* The failure of entry i is the exception handed on: to the caller of the
\* method, or, inside a with statement, to __exit__ and then to the caller.
Propagated(i) ==
    IF pc = "exit" THEN pending.at = i /\ i = Len(log)
    ELSE IF result.op = "with" /\ result.val.entered
      THEN result.val.block.at = i \/ (result.err.at = i /\ i = Len(log))
    ELSE ~result.ok /\ result.err.at = i /\ i = Len(log)

\* C10 as stated: only the lvcreate of create_from_raw is retried; a failure
\* of any other invocation is followed by no wait and no second attempt, and
\* (the presence probe of delete() aside) it propagates.
C10_OnlyAllocationRetried ==
    \A i \in 1..Len(log) :
      (Failed(log[i]) /\ ~IsAllocation(log[i]))
        => /\ NotRetried(log, i)
           /\ ~IsProbe(log[i]) => Propagated(i)

\* C10 amended: the lvcreate of create_from_raw and the lvremove of
\* LvmImage.delete are retried; a failure of any other invocation is followed
\* by no wait and no second attempt, and (the presence probe of delete()
\* aside) it propagates.
C10_OnlyHelperRetried ==
    \A i \in 1..Len(log) :
      (Failed(log[i]) /\ ~IsAllocation(log[i]) /\ ~IsImageRemoval(log[i]))
        => /\ NotRetried(log, i)
           /\ ~IsProbe(log[i]) => Propagated(i)

\* C10 witness: the removal of an LVM snapshot failed with a
\* process-execution error and was attempted once.
C10_Witness ==
    /\ result.op = "with"
    /\ Outs(log, "lvremove", "LvmSnapshot.delete") = <<"pee">>
    /\ result.err.kind = "ProcessExecutionError"

\* The outcomes of the lvremove attempts of LvmImage.delete(), in order.
RemovalOuts == Outs(log, "lvremove", "LvmImage.__delete_image")

\* C11: the lvremove of LvmImage.delete() goes through the retrying helper
\* (a process-execution failure is followed by a wait and another attempt,
\* three attempts at most), and when no attempt succeeds delete() raises the
\* error of the last attempt instead of returning.
C11_RemovalFailurePropagates ==
    (result.op = "LvmImage.delete" /\ Len(RemovalOuts) > 0) =>
      /\ Len(RemovalOuts) <= MaxTries
      /\ \A k \in 1..(Len(RemovalOuts) - 1) : RemovalOuts[k] = "pee"
      /\ (RemovalOuts[1] = "pee") => Len(RemovalOuts) > 1
      /\ (\A k \in 1..Len(RemovalOuts) : RemovalOuts[k] # "ok")
           => /\ ~result.ok
              /\ log[Len(log)].ev = "lvremove"
              /\ result.err = Err(ErrKind(log[Len(log)].out), Len(log))
              /\ volPresent

\* C11 witness: three failed attempts of lvremove, and delete() raised.
C11_Witness ==
    /\ result.op = "LvmImage.delete"
    /\ RemovalOuts = <<"pee", "pee", "pee">>
    /\ result.err.kind = "ProcessExecutionError"

\* C12: delete() of a file-backed image never fails: whatever os.remove
\* does, the call returns normally, however often it is repeated.
C12_FileDeleteNeverFails ==
    result.op = "_FileImage.delete" => result.ok

\* The part of C12 that holds: an OSError of os.remove (a missing file
\* included) is logged and not raised.
FileRemovalErrorSuppressed ==
    (result.op = "_FileImage.delete"
       /\ Invoked(log, "os.remove", "_FileImage.delete")
       /\ log[1].out \in RemoveOutcome)
      => /\ result.ok
         /\ (log[1].out = "oserr") = Invoked(log, "LOG.error", "_FileImage.delete")
         /\ (log[1].out = "oserr" \/ ~filePresent)

\* The allocations of LvmSnapshot.create() in the trace.
SnapshotAllocations == Calls(log, "lvcreate -s", "LvmSnapshot.create")

\* C13: make_snapshot stores the size it sampled from the source image in
\* the LvmSnapshot; create() asks lvcreate for exactly the stored size,
\* whatever size the source has by then; and no step other than a
\* make_snapshot (which builds a new object) changes the stored size.
C13_SnapshotSizeFixed ==
    /\ [](/\ (result.op = "make_snapshot" /\ result.ok /\ IsLvm(snap))
               => snap.size = volSize /\ snap.size \in Sizes
          /\ \A k \in 1..Len(SnapshotAllocations) :
               SnapshotAllocations[k].n = snap.size)
    /\ [][result'.op # "make_snapshot" => snap'.size = snap.size]_vars

\* C13 witness: create() has allocated the snapshot with the stored size
\* while the source image has another size.
C13_Witness ==
    /\ IsLvm(snap)
    /\ Succeeded(log, "lvcreate -s", "LvmSnapshot.create")
    /\ SnapshotAllocations[1].n = snap.size
    /\ volSize \in Sizes \ {snap.size}

\* The sources a driver reads from a domain description that are present,
\* in the order of the description.
PresentSources(driver, domain) ==
    LET all == [i \in 1..Len(domain) |-> SourceOf(driver, domain[i])]
        Present(src) == src # None
    IN  SelectSeq(all, Present)

\* An Image that stands for a source: a file-backed image has the source as
\* its path, an LVM image names the logical volume of the source.
StandsFor(image, src) ==
    IF image.kind = "LvmImage" THEN image.lv = Basename(src)
    ELSE path(image) = src

\* C14: for every driver, the i-th Image list_images returns stands for the
\* i-th disk entry that has a source; nothing is dropped or merged, so a
\* source listed k times gives k Images.
C14_ListKeepsOrder ==
    result.op = "list_images" =>
      LET sources == PresentSources(result.args[1], result.args[2])
      IN  /\ Len(result.val) = Len(sources)
          /\ \A i \in 1..Len(result.val) : StandsFor(result.val[i], sources[i])

\* What holds of the order: the LVM driver returns the entries with a source
\* in order and with repetitions; the file drivers return every entry in
\* order, the ones without a source included.
ListOrderOfTheCode ==
    result.op = "list_images" =>
      LET driver == result.args[1]
          domain == result.args[2]
          sources == PresentSources(driver, domain)
      IN  IF driver = "LvmImageDriver"
            THEN /\ Len(result.val) = Len(sources)
                 /\ \A i \in 1..Len(sources) :
                      StandsFor(result.val[i], sources[i])
            ELSE /\ Len(result.val) = Len(domain)
                 /\ \A i \in 1..Len(domain) :
                      path(result.val[i]) = domain[i].file

\* C15: under every configuration, each Image LvmImageDriver.list_images
\* returns has as its path() the device path of the disk entry it was made
\* for.
C15_ListedPathIsSource ==
    (result.op = "list_images" /\ result.args[1] = "LvmImageDriver") =>
      LET sources == PresentSources("LvmImageDriver", result.args[2])
      IN  \A i \in 1..Len(result.val) :
            i <= Len(sources) => path(result.val[i]) = sources[i]

\* What holds of the listed paths: the logical volume's name is taken from
\* the source, the volume group from the configuration.
ListedPathOfTheCode ==
    (result.op = "list_images" /\ result.args[1] = "LvmImageDriver") =>
      LET sources == PresentSources("LvmImageDriver", result.args[2])
      IN  /\ Len(result.val) = Len(sources)
          /\ \A i \in 1..Len(sources) :
               /\ path(result.val[i]) =
                    <<"/", "dev", "/">> \o flags.lvm_volume_group \o <<"/">>
                      \o Basename(sources[i])
               /\ (path(result.val[i]) = sources[i])
                    = (flags.lvm_volume_group = <<"vg0">>)

\* The byte count a well-formed output of the inspector reports in the
\* parentheses of its 'virtual size' line, 0 for any other output.
ReportedSize(stdout) ==
    IF \E a \in DigitAtoms :
         stdout = <<"image", ":", " ", "base", "\n">> \o InfoLine(a)
      THEN IntOf(CHOOSE a \in DigitAtoms :
                   stdout = <<"image", ":", " ", "base", "\n">> \o InfoLine(a))
      ELSE 0

\* C16: create_from_raw probes the size first and once; every allocation
\* comes after a probe whose output was parsed and asks for exactly the
\* reported size; the conversion comes last, right after an allocation that
\* succeeded.  An output that cannot be parsed makes the call raise with
\* nothing allocated or converted.
C16_ProbeAllocateConvert ==
    result.op = "LvmImage.create_from_raw" =>
      LET by == "LvmImage.create_from_raw"
          size == ReportedSize(result.args[1])
          I == 1..Len(log)
      IN  /\ Len(log) >= 1
          /\ \A i \in I : (log[i].ev = "qemu-img info") = (i = 1)
          /\ \A i \in I : IsAllocation(log[i]) =>
               /\ log[1].out = "ok"
               /\ size # 0
               /\ log[i].n = size
          /\ \A i \in I : log[i].ev = "qemu-img convert" =>
               /\ i = Len(log)
               /\ IsAllocation(log[i - 1])
               /\ log[i - 1].out = "ok"
          /\ (log[1].out = "ok" /\ size = 0) =>
               /\ Len(log) = 1
               /\ ~result.ok
               /\ result.err.kind \in {"ValueError", "KeyError", "IndexError"}
          /\ result.ok => /\ Invoked(log, "qemu-img convert", by)
                          /\ log[Len(log)].out = "ok"

\* C16 witness: probe, a failed and a successful allocation of the reported
\* 2048 bytes, then the conversion.
C16_Witness ==
    /\ result.op = "LvmImage.create_from_raw"
    /\ ReportedSize(result.args[1]) = 2048
    /\ AllocOuts = <<"pee", "ok">>
    /\ log[Len(log)].ev = "qemu-img convert"
    /\ \A i \in 1..Len(log) : IsAllocation(log[i]) => log[i].n = 2048

\* The snapshot-delete calls of the trace.
HandleDeletes == Calls(log, "snapshot.delete", "_LibvirtSnapshot.delete")

\* C17: for a RawSnapshot or QcowSnapshot, every snapshot-delete call goes
\* to the handle the hypervisor returned to the latest successful create()
\* of the object; delete() on an object that no create() has succeeded on
\* raises without any call to the hypervisor; and create() sends its
\* snapshot request without asking for the run state of the domain, active
\* or not.
C17_DeleteLatestHandle ==
    ~IsLvm(snap) =>
      /\ \A k \in 1..Len(HandleDeletes) :
           hvLast # 0 /\ HandleDeletes[k].n = hvLast
      /\ (result.op = "Snapshot.delete" /\ hvLast = 0)
           => /\ ~result.ok
              /\ result.err = Err("AttributeError", 0)
              /\ log = <<>>
      /\ (result.op = "Snapshot.delete" /\ hvLast # 0)
           => Len(HandleDeletes) = 1
      /\ result.op = "Snapshot.create"
           => /\ Len(log) = 1
              /\ log[1].ev = "snapshotCreateXML"
              /\ result.ok = (log[1].out = "ok")

\* C17 witness: a second create() succeeded on a running domain's snapshot
\* object and delete() went to its handle.
C17_Witness ==
    /\ ~IsLvm(snap)
    /\ result.op = "Snapshot.delete"
    /\ result.ok
    /\ domainActive
    /\ hvLast = 2
    /\ HandleDeletes[1].n = 2

\* create(), called by __enter__, raised: its allocation or snapshot request
\* failed, or LvmSnapshot.create refused a running domain.
CreateRefused ==
    \E i \in 1..Len(log) :
      /\ log[i].ev = "isActive" /\ log[i].by = "LvmSnapshot.create"
      /\ log[i].n = 1
CreateCallFailed ==
    \E i \in 1..Len(log) :
      /\ log[i].by \in {"LvmSnapshot.create", "_LibvirtSnapshot.create"}
      /\ log[i].ev \in {"lvcreate -s", "snapshotCreateXML"}
      /\ Failed(log[i])
CreateRaisedOnEntry ==
    /\ Invoked(log, "create()", "Snapshot.__enter__")
    /\ CreateRefused \/ CreateCallFailed

\* C18: when create() raises on entry of a with statement, the statement is
\* over at once: the caller gets the exception of create(), the block's
\* convert_to_raw has not been invoked, and neither delete() nor any removal
\* has been invoked.
C18_FailedEntrySkipsScope ==
    CreateRaisedOnEntry =>
      /\ pc = "idle"
      /\ pending = NoErr
      /\ result.op = "with"
      /\ ~result.val.entered
      /\ ~result.ok
      /\ result.err = IF CreateRefused THEN Err("RuntimeError", 0)
                      ELSE Err(ErrKind(log[Len(log)].out), Len(log))
      /\ \A i \in 1..Len(log) :
           /\ log[i].ev \notin {"delete()", "lvremove", "snapshot.delete",
                                "dd", "qemu-img convert -s"}
           /\ log[i].by \in {"Snapshot.__enter__", "LvmSnapshot.create",
                             "_LibvirtSnapshot.create"}

\* C18 witness: the allocation of the LVM snapshot failed on entry and the
\* caller got that failure.
C18_Witness ==
    /\ CreateRaisedOnEntry
    /\ IsLvm(snap)
    /\ log[Len(log)].ev = "lvcreate -s"
    /\ result.err = Err("ProcessExecutionError", Len(log))
    /\ ~result.val.entered

====
